---- MODULE Spec2Model ----
(***************************************************************************)
(* Booking lifecycle of the service-finder backend (servicemgmt app):      *)
(* the REST handlers that create, update, cancel and pay a ServiceBooking, *)
(* the model save() hooks they run, the notifications they create, the     *)
(* geo-matched service search, the reviews of completed bookings with the  *)
(* provider rating they feed, the distance and travel time stored with a   *)
(* new booking, and the same handlers cut at their reads and writes, as    *)
(* concurrent requests interleave them.                                    *)
(***************************************************************************)
EXTENDS Integers, Sequences, FiniteSets, TLC

\* ---------------------------------------------------------------- bounds
\* The clock starts at 1 and ticks at every request that creates, updates or
\* cancels a booking or creates a payment, so no two of them read the same
\* timezone.now(); none of them is served once the clock has reached MaxTime.
\* A payment that leaves processing reads the clock as it stands.
MaxTime == 4
\* Rows the ServiceBooking table may hold.
MaxBookings == 1
\* The number of ProviderService rows a search runs over.
MaxServices == 3

\* ----------------------------------------------------------------- users
\* usermgmt.User rows; role is one of USER_ROLES.
Customers == {"c1", "c2"}
Providers == {"p1", "p2"}
Users == Customers \cup Providers

role == [u \in Users |-> IF u \in Customers THEN "customer" ELSE "provider"]

is_customer(u) == role[u] = "customer"

is_provider(u) == role[u] = "provider"

\* ------------------------------------------------------------ enumerations
BOOKING_STATUS ==
    {"pending", "confirmed", "in_progress", "completed", "cancelled", "rejected"}

PAYMENT_METHODS == {"cash", "online"}

\* A field the request does not carry / a nullable column holding NULL.
ABSENT == "absent"
NULL == 0

\* The quoted_price every create_booking request carries, and a price that
\* differs from it.
QuotedPrice == 150
OtherPrice == 100

\* ------------------------------------------------------------ request data
\* The JSON body handed to ServiceBookingSerializer, reduced to the writable
\* fields the lifecycle depends on.  booking_date is relative to the clock:
\* "now" is equal to timezone.now(), "future" is later.  service and
\* service_address are taken as present and well-formed in every POST and PUT
\* body and as absent from every PATCH body.  A quoted_price of NULL stands
\* for a body without that field.
DataCustomers == {ABSENT, "c1", "c2", "p1"}
DataProviders == {ABSENT, "p1", "p2", "c1"}
DataStatus == BOOKING_STATUS \cup {ABSENT}
DataDates == {ABSENT, "now", "future"}
DataReasons == {ABSENT, "Not available on that date"}
DataPrices == {NULL, QuotedPrice, OtherPrice}

\* The <<customer, provider, booking_date>> part of a body that carries every
\* required field and passes validate().
FullParties == <<"c1", "p1", "future">>

\* The same part of the bodies that leave required fields out: a status-only
\* body, a body without the customer field alone, and the PATCH bodies that
\* name the provider alone: the booking's own, and another one.
StatusOnlyParties == <<ABSENT, ABSENT, ABSENT>>
NoCustomerParties == <<ABSENT, "p1", "future">>
SameProviderParties == <<ABSENT, "p1", ABSENT>>
OtherProviderParties == <<ABSENT, "p2", ABSENT>>

\* One such part for each of the four errors validate() raises, in the order
\* of its checks.
InvalidParties ==
    {<<"c1", "c1", "future">>, <<"p1", "c1", "future">>,
     <<"c2", "c1", "future">>, <<"c1", "p1", "now">>}

\* The ProviderService row every body names: a service offered by p1.
TheService == "s1"

\* A request body from its <<customer, provider, booking_date>> part and its
\* other writable fields.
Body(parties, status, reason, price) ==
    [customer |-> parties[1], provider |-> parties[2],
     booking_date |-> parties[3], status |-> status,
     rejection_reason |-> reason, quoted_price |-> price,
     service |-> TheService, payment_status |-> ABSENT]

\* payment_status is a writable field of the serializer: the PATCH body that
\* names the provider and asks for payment_status paid.
PaidBody ==
    [Body(SameProviderParties, ABSENT, ABSENT, NULL)
        EXCEPT !.payment_status = "paid"]

\* The request bodies: a full body with any status or none; a status-only
\* body asking for confirmed or for rejected; a body with the provider and
\* another quoted_price; a body with another provider; a body without
\* customer and without status; the four bodies validate() refuses, without
\* status; a body asking for payment_status paid.  A rejection_reason accompanies a request for status rejected only.
BookingData ==
    {Body(FullParties, s, ABSENT, QuotedPrice) : s \in DataStatus}
    \cup {Body(FullParties, "rejected", r, QuotedPrice) : r \in DataReasons}
    \cup {Body(StatusOnlyParties, "confirmed", ABSENT, NULL)}
    \cup {Body(StatusOnlyParties, "rejected", r, NULL) : r \in DataReasons}
    \cup {Body(SameProviderParties, ABSENT, ABSENT, OtherPrice),
          Body(OtherProviderParties, ABSENT, ABSENT, NULL),
          Body(NoCustomerParties, ABSENT, ABSENT, QuotedPrice)}
    \cup {Body(p, ABSENT, ABSENT, QuotedPrice) : p \in InvalidParties}
    \cup {PaidBody}

\* The users who send create_booking requests: one of each role.
Creators == {"c1", "p1"}

\* The bodies of create_booking requests: those that leave status out or, the
\* field being writable, ask for confirmed.
CreateData == {d \in BookingData : d.status \in {ABSENT, "confirmed"}}

\* ------------------------------------------------------------------ state
VARIABLES
    bookings,       \* ServiceBooking table: sequence of rows, id = index
    payments,       \* Payment table: sequence of rows, id = index
    processing,     \* pay requests sleeping in process_fake_payment, each
                    \* holding the booking instance it loaded
    notifications,  \* Notification table: sequence of rows in creation order
    now,            \* timezone.now()
    response,       \* the HTTP response of the last request handled
    services,       \* ProviderService table joined with its provider and the
                    \* provider's profile: sequence of rows, id = index
    search,         \* the search request handled and its response
    reviews,        \* Review table: sequence of rows, id = index
    profiles,       \* ServiceProviderProfile rows, by user
    creating,       \* review requests between is_valid and create
    travel,         \* the coordinates a booking is created with and the
                    \* distance and travel time stored for it
    inflight        \* requests between loading a booking and saving it

vars == <<bookings, payments, processing, notifications, now, response,
          services, search, reviews, profiles, creating, travel, inflight>>

\* What the booking and payment handlers leave alone.
searchvars == <<services, search, reviews, profiles, creating, travel,
                inflight>>

NoSearch == [code |-> 0]

\* registration creates a ServiceProviderProfile for every provider, with the
\* model's defaults; average_rating is in hundredths of a star.
NoProfiles == [p \in Providers |-> [average_rating |-> 0, total_reviews |-> 0]]

NoTravel == [code |-> 0]

BookingIds == 1..MaxBookings

NoResponse == [op |-> "none", booking |-> 0, code |-> 0, detail |-> ""]

\* The response of operation op on booking b: HTTP status code and error text.
Respond(op, b, code, detail) ==
    [op |-> op, booking |-> b, code |-> code, detail |-> detail]

\* A rejected request changes nothing but the response, so the requests that
\* can follow it are those that could have been sent in its place: no new
\* request is followed after a rejected one.
Serving == response.code < 400

\* ------------------------------------------------------- ServiceBooking.save
\* The timestamp hook run by every save of a booking instance.
ServiceBooking_save(obj) ==
    IF obj.status = "confirmed" /\ obj.confirmed_at = NULL
        THEN [obj EXCEPT !.confirmed_at = now]
    ELSE IF obj.status = "completed" /\ obj.completed_at = NULL
        THEN [obj EXCEPT !.completed_at = now]
    ELSE IF obj.status = "cancelled" /\ obj.cancelled_at = NULL
        THEN [obj EXCEPT !.cancelled_at = now]
    ELSE obj

\* ------------------------------------------- ServiceBookingSerializer fields
\* Field-level validation: on a non-partial request every model field without
\* a default must be present.
MissingRequired(data, partial) ==
    /\ ~partial
    /\ \/ data.customer = ABSENT
       \/ data.provider = ABSENT
       \/ data.booking_date = ABSENT
       \/ data.quoted_price = NULL

\* The datetime a booking_date tag of the request stands for.
DateValue(tag) == IF tag = "future" THEN now + 1 ELSE now

\* Mutant: the date check uses < in place of <=.
validate_lt(data) ==
    IF data.customer = data.provider
        THEN "Cannot book your own service"
    ELSE IF data.customer # ABSENT /\ ~is_customer(data.customer)
        THEN "Only customers can make bookings"
    ELSE IF data.provider # ABSENT /\ ~is_provider(data.provider)
        THEN "Invalid service provider"
    ELSE IF data.booking_date # ABSENT /\ DateValue(data.booking_date) < now
        THEN "Booking date must be in the future"
    ELSE "ok"

\* Mutant: the role of the provider field is not checked.
validate_anyprovider(data) ==
    IF data.customer = data.provider
        THEN "Cannot book your own service"
    ELSE IF data.customer # ABSENT /\ ~is_customer(data.customer)
        THEN "Only customers can make bookings"
    ELSE IF data.booking_date # ABSENT /\ DateValue(data.booking_date) <= now
        THEN "Booking date must be in the future"
    ELSE "ok"

\* ServiceBookingSerializer.validate: "ok" or the ValidationError message.
\* data.get(f) is None for a field the request does not carry.
validate(data) ==
    IF data.customer = data.provider
        THEN "Cannot book your own service"
    ELSE IF data.customer # ABSENT /\ ~is_customer(data.customer)
        THEN "Only customers can make bookings"
    ELSE IF data.provider # ABSENT /\ ~is_provider(data.provider)
        THEN "Invalid service provider"
    ELSE IF data.booking_date # ABSENT /\ DateValue(data.booking_date) <= now
        THEN "Booking date must be in the future"
    ELSE "ok"

\* serializer.is_valid(): field errors first, then validate().
is_valid(data, partial) ==
    IF MissingRequired(data, partial) THEN "This field is required."
    ELSE validate(data)

\* ModelSerializer.update / create: write each supplied field on the instance.
ApplyData(obj, data) ==
    [obj EXCEPT
        !.customer = IF data.customer = ABSENT THEN @ ELSE data.customer,
        !.provider = IF data.provider = ABSENT THEN @ ELSE data.provider,
        !.status = IF data.status = ABSENT THEN @ ELSE data.status,
        !.rejection_reason = IF data.rejection_reason = ABSENT THEN @
                             ELSE data.rejection_reason,
        !.quoted_price = IF data.quoted_price = NULL THEN @
                         ELSE data.quoted_price,
        !.service = data.service,
        !.payment_status = IF data.payment_status = ABSENT THEN @
                           ELSE data.payment_status]

\* A fresh ServiceBooking instance with the model's field defaults.
NewBooking ==
    [customer |-> ABSENT, provider |-> ABSENT, service |-> ABSENT,
     status |-> "pending",
     quoted_price |-> NULL, payment_status |-> "pending",
     confirmed_at |-> NULL, completed_at |-> NULL, cancelled_at |-> NULL,
     rejection_reason |-> ABSENT]

Notification(user, type, b) ==
    [user |-> user, notification_type |-> type, booking |-> b]


\* The value of a Payment timestamp that has been set.  Payment.save only
\* tests these timestamps for emptiness and nothing else reads them, so the
\* model records that the stamp was made and not the time it shows.
STAMPED == 1

\* A fresh Payment instance with the model's field defaults.
NewPayment(b, user, amount, method) ==
    [booking |-> b, customer |-> user, amount |-> amount,
     payment_method |-> method, status |-> "pending",
     transaction_id |-> ABSENT, processed_at |-> NULL, completed_at |-> NULL,
     failed_at |-> NULL]

\* ------------------------------------------------------------------- Init
Init ==
    /\ bookings = <<>>
    /\ payments = <<>>
    /\ processing = {}
    /\ notifications = <<>>
    /\ now = 1
    /\ response = NoResponse
    /\ services = <<>>
    /\ search = NoSearch
    /\ reviews = <<>>
    /\ profiles = NoProfiles
    /\ creating = {}
    /\ travel = NoTravel
    /\ inflight = {}

\* ------------------------------------- ServiceBookingListCreateView (POST)
\* CreateModelMixin.create: is_valid, then perform_create, which refuses a
\* non-customer and saves with customer=request.user.
perform_create(user, data) ==
    /\ Serving
    /\ Len(bookings) < MaxBookings
    /\ UNCHANGED <<payments, processing>>
    /\ LET err == is_valid(data, FALSE)
           id == Len(bookings) + 1
       IN IF err # "ok" THEN
              /\ response' = Respond("create_booking", 0, 400, err)
              /\ UNCHANGED <<bookings, notifications, now>>
          ELSE IF ~is_customer(user) THEN
              /\ response' = Respond("create_booking", 0, 403,
                                     "Only customers can create bookings")
              /\ UNCHANGED <<bookings, notifications, now>>
          ELSE
              LET booking == ServiceBooking_save(
                                 [ApplyData(NewBooking, data)
                                     EXCEPT !.customer = user])
              IN /\ now < MaxTime
                 /\ now' = now + 1
                 /\ bookings' = Append(bookings, booking)
                 /\ notifications' = Append(notifications,
                        Notification(booking.provider, "booking_request", id))
                 /\ response' = Respond("create_booking", id, 201, "")

\* --------------------------------------- ServiceBookingDetailView (PUT/PATCH)
\* get_queryset: the bookings the user may look up.
get_queryset(user) ==
    IF is_customer(user)
        THEN {b \in DOMAIN bookings : bookings[b].customer = user}
    ELSE IF is_provider(user)
        THEN {b \in DOMAIN bookings : bookings[b].provider = user}
    ELSE {}

\* Mutant: either party of the booking counts as its owner.
IsOwnerOrReadOnly_party(user, obj) == obj.provider = user \/ obj.customer = user

\* IsOwnerOrReadOnly.has_object_permission for a write.
IsOwnerOrReadOnly(user, obj) == obj.provider = user

\* GenericAPIView.get_object: 404 outside the queryset, 403 when the object
\* permission refuses, 200 when the instance is handed to the serializer.
get_object(user, b) ==
    IF b \notin get_queryset(user) THEN 404
    ELSE IF ~IsOwnerOrReadOnly(user, bookings[b]) THEN 403
    ELSE 200

\* Mutant: the comparison of the old and the new status is missing.
StatusNotification_always(booking, b, old_status, new_status) ==
    IF new_status = "confirmed"
        THEN <<Notification(booking.customer, "booking_confirmed", b)>>
    ELSE IF new_status = "completed"
        THEN <<Notification(booking.customer, "booking_completed", b)>>
    ELSE IF new_status = "cancelled"
        THEN <<Notification(booking.customer, "booking_cancelled", b)>>
    ELSE <<>>

\* The notification perform_update creates after the save, if any.
StatusNotification(booking, b, old_status, new_status) ==
    IF old_status = new_status THEN <<>>
    ELSE IF new_status = "confirmed"
        THEN <<Notification(booking.customer, "booking_confirmed", b)>>
    ELSE IF new_status = "completed"
        THEN <<Notification(booking.customer, "booking_completed", b)>>
    ELSE IF new_status = "cancelled"
        THEN <<Notification(booking.customer, "booking_cancelled", b)>>
    ELSE <<>>

\* The serializer part of a PUT (partial = FALSE) or PATCH (partial = TRUE)
\* on a booking get_object has handed over: is_valid, then perform_update.
perform_update(user, b, partial, data) ==
    /\ Serving
    /\ get_object(user, b) = 200
    /\ UNCHANGED <<payments, processing>>
    /\ LET err == is_valid(data, partial) IN
       IF err # "ok" THEN
           /\ response' = Respond("update_booking_status", b, 400, err)
           /\ UNCHANGED <<bookings, notifications, now>>
       ELSE
           LET old_status == bookings[b].status
               new_status == IF data.status = ABSENT THEN old_status
                             ELSE data.status
               booking == ServiceBooking_save(ApplyData(bookings[b], data))
           IN /\ now < MaxTime
              /\ now' = now + 1
              /\ bookings' = [bookings EXCEPT ![b] = booking]
              /\ notifications' = notifications \o
                    StatusNotification(booking, b, old_status, new_status)
              /\ response' = Respond("update_booking_status", b, 200, "")

\* update_booking_status(actor, booking_id, ...): UpdateModelMixin.update.
\* The request body is read only once get_object has returned the instance.
update_booking_status(user, b) ==
    IF get_object(user, b) # 200 THEN
        /\ Serving
        /\ response' = Respond("update_booking_status", b,
                               get_object(user, b), "")
        /\ UNCHANGED <<bookings, payments, processing, notifications, now>>
    ELSE \E partial \in BOOLEAN, data \in BookingData :
             perform_update(user, b, partial, data)

\* ------------------------------------------------------------ cancel_booking
\* Mutant: the lookup does not filter on the customer.
Cancellable_anyone(user, b) ==
    /\ b \in DOMAIN bookings
    /\ bookings[b].status \in {"pending", "confirmed"}

\* ServiceBooking.objects.get(id, customer=request.user, status__in=[...])
\* finds a row.
Cancellable(user, b) ==
    /\ b \in DOMAIN bookings
    /\ bookings[b].customer = user
    /\ bookings[b].status \in {"pending", "confirmed"}

\* IsCustomer refuses a user without the customer role before the view runs.
cancel_booking(user, b) ==
    /\ Serving
    /\ UNCHANGED <<payments, processing>>
    /\ IF ~is_customer(user) THEN
           /\ response' = Respond("cancel_booking", b, 403, "")
           /\ UNCHANGED <<bookings, notifications, now>>
       ELSE IF ~Cancellable(user, b) THEN
           /\ response' = Respond("cancel_booking", b, 404,
                                  "Booking not found or cannot be cancelled")
           /\ UNCHANGED <<bookings, notifications, now>>
       ELSE
           LET booking == ServiceBooking_save(
                              [bookings[b] EXCEPT !.status = "cancelled"])
           IN /\ now < MaxTime
              /\ now' = now + 1
              /\ bookings' = [bookings EXCEPT ![b] = booking]
              /\ notifications' = Append(notifications,
                     Notification(booking.provider, "booking_cancelled", b))
              /\ response' = Respond("cancel_booking", b, 200, "")

\* ------------------------------------------------------------------ payments
\* Mutant: a row entering completed leaves the booking as it is.
Payment_save_unpaid(obj, held) ==
    IF obj.status = "processing" /\ obj.processed_at = NULL
        THEN [payment |-> [obj EXCEPT !.processed_at = STAMPED],
              writes |-> FALSE, booking |-> held]
    ELSE IF obj.status = "completed" /\ obj.completed_at = NULL
        THEN [payment |-> [obj EXCEPT !.completed_at = STAMPED],
              writes |-> FALSE, booking |-> held]
    ELSE IF obj.status = "failed" /\ obj.failed_at = NULL
        THEN [payment |-> [obj EXCEPT !.failed_at = STAMPED],
              writes |-> TRUE,
              booking |-> ServiceBooking_save(
                              [held EXCEPT !.payment_status = "failed"])]
    ELSE [payment |-> obj, writes |-> FALSE, booking |-> held]

\* Payment.save: the timestamp hook; a row entering completed or failed also
\* writes payment_status on the booking instance the payment holds and saves
\* that instance.  Returns the payment row and the booking row written, if any.
Payment_save(obj, held) ==
    IF obj.status = "processing" /\ obj.processed_at = NULL
        THEN [payment |-> [obj EXCEPT !.processed_at = STAMPED],
              writes |-> FALSE, booking |-> held]
    ELSE IF obj.status = "completed" /\ obj.completed_at = NULL
        THEN [payment |-> [obj EXCEPT !.completed_at = STAMPED],
              writes |-> TRUE,
              booking |-> ServiceBooking_save(
                              [held EXCEPT !.payment_status = "paid"])]
    ELSE IF obj.status = "failed" /\ obj.failed_at = NULL
        THEN [payment |-> [obj EXCEPT !.failed_at = STAMPED],
              writes |-> TRUE,
              booking |-> ServiceBooking_save(
                              [held EXCEPT !.payment_status = "failed"])]
    ELSE [payment |-> obj, writes |-> FALSE, booking |-> held]

\* Mutant: the test for a completed payment of the booking is missing.
ProcessPaymentView_post_nocheck(user, b, method) ==
    /\ Serving
    /\ IF ~is_customer(user) THEN
           /\ response' = Respond("pay_booking", b, 403, "")
           /\ UNCHANGED <<bookings, payments, processing, notifications, now>>
       ELSE IF ~(/\ b \in DOMAIN bookings
                 /\ bookings[b].customer = user
                 /\ bookings[b].status \in {"confirmed", "completed"}) THEN
           /\ response' = Respond("pay_booking", b, 404,
                                  "Booking not found or not eligible for payment")
           /\ UNCHANGED <<bookings, payments, processing, notifications, now>>
       ELSE
           LET booking == bookings[b]
               payment == NewPayment(b, user, booking.quoted_price, method)
               pid == Len(payments) + 1
           IN /\ now < MaxTime
              /\ now' = now + 1
              /\ UNCHANGED notifications
              /\ IF method = "cash" THEN
                     LET saved == Payment_save(
                                      [payment EXCEPT !.status = "completed",
                                                      !.transaction_id = "CASH_"],
                                      booking)
                     IN /\ payments' = Append(payments, saved.payment)
                        /\ bookings' = [bookings EXCEPT ![b] = saved.booking]
                        /\ UNCHANGED processing
                        /\ response' = Respond("pay_booking", b, 201, "")
                 ELSE
                     LET saved == Payment_save(
                                      [payment EXCEPT !.status = "processing",
                                                      !.transaction_id = "TXN_"],
                                      booking)
                     IN /\ payments' = Append(payments, saved.payment)
                        /\ processing' = processing \cup
                               {[payment |-> pid, booking |-> booking,
                                 op |-> "pay_booking"]}
                        /\ UNCHANGED bookings
                        /\ response' = Respond("pay_booking", b, 0, "processing")

\* pay_booking(customer, booking_id, method): ProcessPaymentView.post up to
\* the sleep inside process_fake_payment (cash never reaches it).
ProcessPaymentView_post(user, b, method) ==
    /\ Serving
    /\ IF ~is_customer(user) THEN
           /\ response' = Respond("pay_booking", b, 403, "")
           /\ UNCHANGED <<bookings, payments, processing, notifications, now>>
       ELSE IF ~(/\ b \in DOMAIN bookings
                 /\ bookings[b].customer = user
                 /\ bookings[b].status \in {"confirmed", "completed"}) THEN
           /\ response' = Respond("pay_booking", b, 404,
                                  "Booking not found or not eligible for payment")
           /\ UNCHANGED <<bookings, payments, processing, notifications, now>>
       ELSE IF \E p \in DOMAIN payments :
                   payments[p].booking = b /\ payments[p].status = "completed" THEN
           /\ response' = Respond("pay_booking", b, 400,
                                  "Payment already completed for this booking")
           /\ UNCHANGED <<bookings, payments, processing, notifications, now>>
       ELSE
           LET booking == bookings[b]
               payment == NewPayment(b, user, booking.quoted_price, method)
               pid == Len(payments) + 1
           IN /\ now < MaxTime
              /\ now' = now + 1
              /\ UNCHANGED notifications
              /\ IF method = "cash" THEN
                     LET saved == Payment_save(
                                      [payment EXCEPT !.status = "completed",
                                                      !.transaction_id = "CASH_"],
                                      booking)
                     IN /\ payments' = Append(payments, saved.payment)
                        /\ bookings' = [bookings EXCEPT ![b] = saved.booking]
                        /\ UNCHANGED processing
                        /\ response' = Respond("pay_booking", b, 201, "")
                 ELSE
                     LET saved == Payment_save(
                                      [payment EXCEPT !.status = "processing",
                                                      !.transaction_id = "TXN_"],
                                      booking)
                     IN /\ payments' = Append(payments, saved.payment)
                        /\ processing' = processing \cup
                               {[payment |-> pid, booking |-> booking,
                                 op |-> "pay_booking"]}
                        /\ UNCHANGED bookings
                        /\ response' = Respond("pay_booking", b, 0, "processing")

\* ------------------------------------------------- PaymentListCreateView
\* The JSON body handed to PaymentSerializer; every body carries all four
\* writable fields.
\* The bodies: two that pass validate() on a booking of c1, online and cash,
\* one that names another customer, one with another amount.
PaymentData ==
    {[booking |-> b, customer |-> f[1], amount |-> f[2],
      payment_method |-> f[3]] :
        b \in BookingIds,
        f \in {<<"c1", QuotedPrice, "online">>, <<"c1", QuotedPrice, "cash">>,
               <<"c2", QuotedPrice, "online">>, <<"c1", OtherPrice, "online">>}}

\* PaymentSerializer.validate: "ok" or the ValidationError message.  The
\* booking field is resolved to a row before validate() runs.
PaymentSerializer_validate(data) ==
    IF data.booking \notin DOMAIN bookings
        THEN "Invalid pk - object does not exist."
    ELSE IF data.customer # bookings[data.booking].customer
        THEN "Can only pay for your own bookings"
    ELSE IF bookings[data.booking].status \notin {"confirmed", "completed"}
        THEN "Can only pay for confirmed bookings"
    ELSE IF data.amount # bookings[data.booking].quoted_price
        THEN "Payment amount must match booking price"
    ELSE "ok"

\* create_payment(booking, customer, amount, method): POST payments/ up to
\* the sleep inside process_fake_payment.  The row is saved with
\* customer=request.user and then taken into processing, whatever the method.
PaymentListCreateView_perform_create(user, data) ==
    /\ Serving
    /\ IF ~is_customer(user) THEN
           /\ response' = Respond("create_payment", data.booking, 403, "")
           /\ UNCHANGED <<bookings, payments, processing, notifications, now>>
       ELSE IF PaymentSerializer_validate(data) # "ok" THEN
           /\ response' = Respond("create_payment", data.booking, 400,
                                  PaymentSerializer_validate(data))
           /\ UNCHANGED <<bookings, payments, processing, notifications, now>>
       ELSE
           LET booking == bookings[data.booking]
               payment == NewPayment(data.booking, user, data.amount,
                                     data.payment_method)
               pid == Len(payments) + 1
               saved == Payment_save(
                            [payment EXCEPT !.status = "processing",
                                            !.transaction_id = "TXN_"],
                            booking)
           IN /\ now < MaxTime
              /\ now' = now + 1
              /\ payments' = Append(payments, saved.payment)
              /\ processing' = processing \cup
                     {[payment |-> pid, booking |-> booking,
                       op |-> "create_payment"]}
              /\ UNCHANGED <<bookings, notifications>>
              /\ response' = Respond("create_payment", data.booking, 0,
                                     "processing")

\* Mutant: the terminal save of the payment does not write the booking.
process_fake_payment_nobooking(req, success) ==
    /\ req \in processing
    /\ UNCHANGED <<now, bookings>>
    /\ LET p == req.payment
           saved == Payment_save(
                        [payments[p] EXCEPT
                            !.status = IF success THEN "completed"
                                       ELSE "failed"],
                        req.booking)
       IN /\ payments' = [payments EXCEPT ![p] = saved.payment]
          /\ processing' = processing \ {req}
          /\ notifications' =
                 IF req.op = "create_payment" /\ success
                     THEN Append(notifications,
                                 Notification(req.booking.provider,
                                              "payment_received",
                                              payments[p].booking))
                     ELSE notifications
          /\ response' = Respond(req.op, payments[p].booking, 201, "")

\* process_fake_payment after the sleep: the gateway draw (success when
\* random.random() < 0.9), the terminal save, and the 201 response of the
\* request that was sleeping; PaymentListCreateView then tells the provider
\* of a payment that succeeded.  The request is already being served, so it
\* ends whatever the other requests were answered.
process_fake_payment(req, success) ==
    /\ req \in processing
    /\ UNCHANGED now
    /\ LET p == req.payment
           saved == Payment_save(
                        [payments[p] EXCEPT
                            !.status = IF success THEN "completed"
                                       ELSE "failed"],
                        req.booking)
       IN /\ payments' = [payments EXCEPT ![p] = saved.payment]
          /\ bookings' = IF saved.writes
                             THEN [bookings EXCEPT
                                      ![payments[p].booking] = saved.booking]
                             ELSE bookings
          /\ processing' = processing \ {req}
          /\ notifications' =
                 IF req.op = "create_payment" /\ success
                     THEN Append(notifications,
                                 Notification(req.booking.provider,
                                              "payment_received",
                                              payments[p].booking))
                     ELSE notifications
          /\ response' = Respond(req.op, payments[p].booking, 201, "")

\* ------------------------------------------------------------------- Next
Next ==
    \/ /\ Serving /\ UNCHANGED searchvars
       /\ \E u \in Creators, d \in CreateData : perform_create(u, d)
    \/ /\ Serving /\ UNCHANGED searchvars
       /\ \E u \in Users, b \in BookingIds : update_booking_status(u, b)
    \/ /\ Serving /\ UNCHANGED searchvars
       /\ \E u \in Users, b \in BookingIds : cancel_booking(u, b)
    \/ /\ Serving /\ UNCHANGED searchvars
       /\ \E u \in Users, b \in BookingIds, m \in PAYMENT_METHODS :
              ProcessPaymentView_post(u, b, m)
    \/ /\ Serving /\ UNCHANGED searchvars
       /\ \E u \in Users, d \in PaymentData :
              PaymentListCreateView_perform_create(u, d)
    \/ /\ UNCHANGED searchvars
       /\ \E req \in processing, s \in BOOLEAN : process_fake_payment(req, s)

Spec == Init /\ [][Next]_vars

\* A request sleeping in process_fake_payment is a running thread of the
\* server: while requests sleep, one of them wakes up and runs to its
\* response.
FairSpec ==
    /\ Spec
    /\ WF_vars(/\ UNCHANGED searchvars
               /\ \E req \in processing, s \in BOOLEAN :
                      process_fake_payment(req, s))

\* ----------------------------------------------------------- ServiceSearchView
\* An optional value: a field the request does not carry or a NULL column,
\* and a value that is present.
None == <<>>
Some(v) == <<v>>

\* Category names and the category filter are sequences of characters.
Spa == <<"S", "p", "a">>
Gas == <<"G", "a", "s">>

\* str.lower() on the characters in use.
Lower(c) ==
    CASE c = "S" -> "s"
      [] c = "G" -> "g"
      [] c = "A" -> "a"
      [] c = "P" -> "p"
      [] OTHER -> c

\* The icontains lookup: q occurs in name, case ignored.
icontains(name, q) ==
    \E i \in 0..(Len(name) - Len(q)) :
        \A j \in 1..Len(q) : Lower(name[i + j]) = Lower(q[j])

\* A ProviderService row with the columns of its provider and of the
\* provider's profile the search reads.  Latitudes and longitudes are in
\* units of 0.0001 degree, average_rating in hundredths, base_price in whole
\* currency units.
ServiceRow(active, provider_active, lat, lng, category, rating, price, count) ==
    [is_active |-> active, provider_is_active |-> provider_active,
     latitude |-> lat, longitude |-> lng, category |-> category,
     average_rating |-> rating, base_price |-> price,
     total_reviews |-> count]

\* The rows a catalogue is made of: providers at 0.00, 10.00, 10.01, 50.00
\* and 50.02 km from the origin of the searches, an inactive service, an
\* inactive provider, and providers without latitude or without longitude.
ServiceRows ==
    {ServiceRow(TRUE, TRUE, Some(0), Some(0), Spa, 450, 50, 10),
     ServiceRow(TRUE, TRUE, Some(899), Some(0), Spa, 450, 80, 3),
     ServiceRow(TRUE, TRUE, Some(900), Some(0), Gas, 300, 50, 10),
     ServiceRow(TRUE, TRUE, Some(4497), Some(0), Gas, 500, 20, 0),
     ServiceRow(TRUE, TRUE, Some(4498), Some(0), Spa, 500, 20, 0),
     ServiceRow(FALSE, TRUE, Some(0), Some(0), Spa, 450, 50, 10),
     ServiceRow(TRUE, FALSE, Some(0), Some(0), Spa, 450, 50, 10),
     ServiceRow(TRUE, TRUE, None, Some(0), Spa, 450, 50, 10),
     ServiceRow(TRUE, TRUE, Some(0), None, Spa, 450, 50, 10)}

\* The ProviderService tables of at most MaxServices rows.
Catalogues == UNION {[1..n -> ServiceRows] : n \in 0..MaxServices}

\* The body of a search request; its origin is latitude 0, longitude 0.
SearchBody(radius, category, min_rating, max_price, sort_by) ==
    [latitude |-> 0, longitude |-> 0, radius |-> radius,
     category |-> category, min_rating |-> min_rating,
     max_price |-> max_price, sort_by |-> sort_by]

SORT_BY == {"distance", "rating", "price", "reviews"}

\* The search requests: every radius of interest without filters, every sort
\* key, each filter alone and all three together, and bodies the serializer
\* refuses.
SearchData ==
    {SearchBody(r, None, None, None, "distance") :
        r \in {None, Some(0), Some(1), Some(10), Some(50), Some(51)}}
    \cup {SearchBody(Some(r), None, None, None, s) :
            r \in {10, 50}, s \in SORT_BY \cup {"name"}}
    \cup {SearchBody(Some(10), Some(c), None, None, "distance") :
            c \in {<<"p", "A">>, <<"s">>, <<>>}}
    \cup {SearchBody(Some(10), None, Some(m), None, "rating") :
            m \in {0, 450, 501}}
    \cup {SearchBody(Some(10), None, None, Some(p), "price") : p \in {0, 50}}
    \cup {SearchBody(Some(50), Some(<<"s">>), Some(300), Some(50), "reviews")}

\* ServiceSearchSerializer.is_valid: the field validators.
ServiceSearchSerializer_is_valid(data) ==
    /\ data.radius # None => data.radius[1] \in 1..50
    /\ data.category # None => data.category[1] # <<>>
    /\ data.min_rating # None => data.min_rating[1] \in 0..500
    /\ data.max_price # None => data.max_price[1] >= 0
    /\ data.sort_by \in SORT_BY

\* "if x:" on an optional number: absent and zero are both false.
Truthy(opt) == opt # None /\ opt[1] # 0

\* calculate_distance for two points on one meridian, where the haversine
\* angle is the difference of the latitudes: round(radians(dlat) * 6371, 2)
\* in hundredths of a kilometre, 6371 * pi / 180 = 111.19492664 km a degree.
calculate_distance(lat1, lng1, lat2, lng2) ==
    LET dlat == IF lat2 >= lat1 THEN lat2 - lat1 ELSE lat1 - lat2
        micro == dlat * 111949 + (dlat * 2664) \div 10000
    IN  dlat + (micro + 500000) \div 1000000

\* The queryset after its filters, as the ids it yields in table order.
FilteredServices(data) ==
    SelectSeq([i \in 1..Len(services) |-> i],
              LAMBDA i :
                  /\ services[i].is_active
                  /\ services[i].provider_is_active
                  /\ services[i].latitude # None
                  /\ services[i].longitude # None
                  /\ data.category # None
                        => icontains(services[i].category, data.category[1])
                  /\ Truthy(data.min_rating)
                        => services[i].average_rating >= data.min_rating[1]
                  /\ Truthy(data.max_price)
                        => services[i].base_price <= data.max_price[1])

\* The service object of the loop with distance_km and is_nearby added.
WithDistance(i, data, radius) ==
    LET distance == calculate_distance(data.latitude, data.longitude,
                                       services[i].latitude[1],
                                       services[i].longitude[1])
    IN  [id |-> i, distance_km |-> distance,
         is_nearby |-> distance <= radius * 100]

\* sort_key of the view.
sort_key(sort_by, service) ==
    IF sort_by = "distance" THEN service.distance_km
    ELSE IF sort_by = "rating" THEN 0 - services[service.id].average_rating
    ELSE IF sort_by = "price" THEN services[service.id].base_price
    ELSE IF sort_by = "reviews" THEN 0 - services[service.id].total_reviews
    ELSE service.distance_km

\* Mutant: an element goes before the elements that have its key.
Insert_before(sorted, x, sort_by) ==
    LET k == Cardinality({i \in 1..Len(sorted) :
                 sort_key(sort_by, sorted[i]) < sort_key(sort_by, x)})
    IN  SubSeq(sorted, 1, k) \o <<x>> \o SubSeq(sorted, k + 1, Len(sorted))

\* One step of a stable sort: x, which followed the elements of sorted in
\* the list, goes after the elements whose key is not larger than its own.
Insert(sorted, x, sort_by) ==
    LET k == Cardinality({i \in 1..Len(sorted) :
                 sort_key(sort_by, sorted[i]) <= sort_key(sort_by, x)})
    IN  SubSeq(sorted, 1, k) \o <<x>> \o SubSeq(sorted, k + 1, Len(sorted))

\* list.sort(key=sort_key): a stable sort.
RECURSIVE list_sort(_, _)
list_sort(list, sort_by) ==
    IF list = <<>> THEN <<>>
    ELSE Insert(list_sort(SubSeq(list, 1, Len(list) - 1), sort_by),
                list[Len(list)], sort_by)

\* search(origin, radius, category?, min_rating?, max_price?, sort_by):
\* ServiceSearchView.post.  IsCustomer refuses a user without the customer
\* role.  The view keeps no state, so one request shows all it does.
ServiceSearchView_post(user, data) ==
    /\ search = NoSearch
    /\ UNCHANGED <<bookings, payments, processing, notifications, now,
                   response, services, reviews, profiles, creating, travel,
                   inflight>>
    /\ IF ~is_customer(user) THEN
           search' = [code |-> 403, data |-> data,
                      nearby_services |-> <<>>, distant_services |-> <<>>]
       ELSE IF ~ServiceSearchSerializer_is_valid(data) THEN
           search' = [code |-> 400, data |-> data,
                      nearby_services |-> <<>>, distant_services |-> <<>>]
       ELSE
           LET radius == IF data.radius = None THEN 10 ELSE data.radius[1]
               ids == FilteredServices(data)
               found == [n \in 1..Len(ids) |-> WithDistance(ids[n], data, radius)]
               nearby == SelectSeq(found,
                             LAMBDA x : x.distance_km <= radius * 100)
               distant == SelectSeq(found,
                              LAMBDA x : /\ ~(x.distance_km <= radius * 100)
                                         /\ x.distance_km <= 5000)
           IN search' = [code |-> 200, data |-> data,
                         nearby_services |-> list_sort(nearby, data.sort_by),
                         distant_services |-> list_sort(distant, data.sort_by)]

\* The searches of one customer and one provider over every catalogue.
SearchInit ==
    /\ bookings = <<>>
    /\ payments = <<>>
    /\ processing = {}
    /\ notifications = <<>>
    /\ now = 1
    /\ response = NoResponse
    /\ services \in Catalogues
    /\ search = NoSearch
    /\ reviews = <<>>
    /\ profiles = NoProfiles
    /\ creating = {}
    /\ travel = NoTravel
    /\ inflight = {}

SearchNext ==
    \E u \in Creators, d \in SearchData : ServiceSearchView_post(u, d)

SearchSpec == SearchInit /\ [][SearchNext]_vars

\* ------------------------------------------------------- ReviewListCreateView
\* ProviderService.provider of the service rows in use.
ServiceProviders == [s \in {TheService} |-> "p1"]

\* How many create_review requests may be between is_valid and create at
\* once, and how many requests may be between loading a row and saving it.
MaxConcurrent == 2

\* The rows of the ServiceBooking table the review requests run over:
\* bookings of c1 the handlers above can produce, with either provider (a
\* PATCH rewrites it) and a status before or at completed, saved with that
\* status when the clock showed 1.
ReviewBookings ==
    {[NewBooking EXCEPT !.customer = "c1", !.provider = p,
                        !.service = TheService, !.status = s,
                        !.quoted_price = QuotedPrice,
                        !.confirmed_at = IF s = "confirmed" THEN 1 ELSE NULL,
                        !.completed_at = IF s = "completed" THEN 1 ELSE NULL] :
        p \in Providers, s \in {"confirmed", "completed"}}

\* rating carries MinValueValidator(1) and MaxValueValidator(5).
RATINGS == {0, 2, 5}

\* The JSON body handed to ReviewSerializer, reduced to booking, customer and
\* rating; the four category ratings are taken as present and valid.
ReviewData ==
    {[booking |-> b, customer |-> c, rating |-> r] :
        b \in BookingIds, c \in {ABSENT, "c1", "c2"}, r \in RATINGS}

\* The users who send create_review requests.
Reviewers == {"c1", "c2", "p1"}

\* hasattr(booking, 'review'): a Review row points at the booking.
HasReview(b) == \E r \in DOMAIN reviews : reviews[r].booking = b

\* ServiceBooking.can_be_reviewed.
can_be_reviewed(b) == bookings[b].status = "completed" /\ ~HasReview(b)

\* Field-level validation of ReviewSerializer: the booking field is a
\* OneToOneField, which the serializer checks with a UniqueValidator; customer
\* is a writable field without a default; rating has its range validators.
ReviewSerializer_fields(data) ==
    IF data.booking \notin DOMAIN bookings
        THEN "Invalid pk - object does not exist."
    ELSE IF HasReview(data.booking)
        THEN "This field must be unique."
    ELSE IF data.customer = ABSENT
        THEN "This field is required."
    ELSE IF data.rating < 1
        THEN "Ensure this value is greater than or equal to 1."
    ELSE "ok"

\* ReviewSerializer.validate: "ok" or the ValidationError message.
ReviewSerializer_validate(data) ==
    IF bookings[data.booking].status # "completed"
        THEN "Can only review completed bookings"
    ELSE IF data.customer # bookings[data.booking].customer
        THEN "Can only review your own bookings"
    ELSE IF HasReview(data.booking)
        THEN "Booking already has a review"
    ELSE "ok"

\* serializer.is_valid(): field errors first, then validate().
ReviewSerializer_is_valid(data) ==
    IF ReviewSerializer_fields(data) # "ok" THEN ReviewSerializer_fields(data)
    ELSE ReviewSerializer_validate(data)

\* create_review(booking, customer, ratings...): CreateModelMixin.create up
\* to serializer.save: is_valid, then perform_create, which refuses a
\* non-customer.  The request goes on with the booking instance the booking
\* field was resolved to.
ReviewListCreateView_post(user, data) ==
    /\ Serving
    /\ UNCHANGED <<bookings, payments, processing, notifications, now,
                   services, search, reviews, profiles, travel, inflight>>
    /\ IF ReviewSerializer_is_valid(data) # "ok" THEN
           /\ response' = Respond("create_review", data.booking, 400,
                                  ReviewSerializer_is_valid(data))
           /\ UNCHANGED creating
       ELSE IF ~is_customer(user) THEN
           /\ response' = Respond("create_review", data.booking, 403,
                                  "Only customers can create reviews")
           /\ UNCHANGED creating
       ELSE
           /\ Cardinality(creating) < MaxConcurrent
           /\ creating' = creating \cup
                  {[user |-> user, data |-> data,
                    booking |-> bookings[data.booking]]}
           /\ response' = Respond("create_review", data.booking, 0, "creating")

\* The sum of the rating column over the rows ids of a Review table.
RECURSIVE SumRatings(_, _)
SumRatings(table, ids) ==
    IF ids = {} THEN 0
    ELSE LET r == CHOOSE x \in ids : TRUE
         IN  table[r].rating + SumRatings(table, ids \ {r})

\* ServiceProviderProfile.update_rating over a Review table: the rows are
\* those whose service belongs to the user; Avg('rating') is stored in a
\* DecimalField with two decimal places, here in hundredths, rounded.
update_rating(user, table) ==
    LET ids == {r \in DOMAIN table : ServiceProviders[table[r].service] = user}
        n == Cardinality(ids)
    IN  IF ids # {}
            THEN [average_rating |->
                      (200 * SumRatings(table, ids) + n) \div (2 * n),
                  total_reviews |-> n]
        ELSE [average_rating |-> 0, total_reviews |-> 0]

\* The points of ReviewSerializer.create at which a request may fail: none,
\* the recomputation of the rating, the creation of the notification.
FAULTS == {"none", "update_rating", "notification"}

ReviewNotification(user, r) ==
    [user |-> user, notification_type |-> "review_received", booking |-> 0,
     review |-> r]

\* Mutant: the block is not atomic, so what was written before a failure
\* stays.
ReviewSerializer_create_noatomic(req, fault) ==
    /\ req \in creating
    /\ creating' = creating \ {req}
    /\ UNCHANGED <<bookings, payments, processing, now, services, search,
                   travel, inflight>>
    /\ LET b == req.data.booking
           id == Len(reviews) + 1
           review == [booking |-> b, customer |-> req.user,
                      provider |-> req.booking.provider,
                      service |-> req.booking.service,
                      rating |-> req.data.rating]
           table == Append(reviews, review)
       IN IF HasReview(b) THEN
              /\ response' = Respond("create_review", b, 500, "IntegrityError")
              /\ UNCHANGED <<reviews, profiles, notifications>>
          ELSE IF fault = "update_rating" THEN
              /\ response' = Respond("create_review", b, 500, fault)
              /\ reviews' = table
              /\ UNCHANGED <<profiles, notifications>>
          ELSE IF fault = "notification" THEN
              /\ response' = Respond("create_review", b, 500, fault)
              /\ reviews' = table
              /\ profiles' = IF review.provider \in DOMAIN profiles
                                 THEN [profiles EXCEPT ![review.provider] =
                                          update_rating(review.provider, table)]
                             ELSE profiles
              /\ UNCHANGED notifications
          ELSE
              /\ reviews' = table
              /\ profiles' = IF review.provider \in DOMAIN profiles
                                 THEN [profiles EXCEPT ![review.provider] =
                                          update_rating(review.provider, table)]
                             ELSE profiles
              /\ notifications' = Append(notifications,
                                      ReviewNotification(review.provider, id))
              /\ response' = Respond("create_review", b, 201, "")

\* serializer.save(customer=request.user): ReviewSerializer.create.  Inside
\* transaction.atomic() the Review row is inserted (the one-to-one column
\* refuses a second row for a booking), Review.save recomputes the rating of
\* the review's provider, and the provider is notified; a failure at any
\* point rolls all of it back.
ReviewSerializer_create(req, fault) ==
    /\ req \in creating
    /\ creating' = creating \ {req}
    /\ UNCHANGED <<bookings, payments, processing, now, services, search,
                   travel, inflight>>
    /\ LET b == req.data.booking
           id == Len(reviews) + 1
           review == [booking |-> b, customer |-> req.user,
                      provider |-> req.booking.provider,
                      service |-> req.booking.service,
                      rating |-> req.data.rating]
           table == Append(reviews, review)
       IN IF HasReview(b) THEN
              /\ response' = Respond("create_review", b, 500, "IntegrityError")
              /\ UNCHANGED <<reviews, profiles, notifications>>
          ELSE IF fault # "none" THEN
              /\ response' = Respond("create_review", b, 500, fault)
              /\ UNCHANGED <<reviews, profiles, notifications>>
          ELSE
              /\ reviews' = table
              /\ profiles' = IF review.provider \in DOMAIN profiles
                                 THEN [profiles EXCEPT ![review.provider] =
                                          update_rating(review.provider, table)]
                             ELSE profiles
              /\ notifications' = Append(notifications,
                                      ReviewNotification(review.provider, id))
              /\ response' = Respond("create_review", b, 201, "")

\* The review requests over every table of bookings.
ReviewInit ==
    /\ bookings \in [BookingIds -> ReviewBookings]
    /\ payments = <<>>
    /\ processing = {}
    /\ notifications = <<>>
    /\ now = 1
    /\ response = NoResponse
    /\ services = <<>>
    /\ search = NoSearch
    /\ reviews = <<>>
    /\ profiles = NoProfiles
    /\ creating = {}
    /\ travel = NoTravel
    /\ inflight = {}

ReviewNext ==
    \/ \E u \in Reviewers, d \in ReviewData : ReviewListCreateView_post(u, d)
    \/ \E req \in creating, f \in FAULTS : ReviewSerializer_create(req, f)

ReviewSpec == ReviewInit /\ [][ReviewNext]_vars

\* ------------------------------------------ ServiceBookingSerializer.create
\* Coordinates are in ten-thousandths of a degree, distances in hundredths of
\* a kilometre.  The latitudes in use: the equator, a latitude of New York,
\* and the latitudes 0.004 and 0.27 degrees north of it; the longitudes: the
\* prime meridian and a longitude of New York.
HomeLatitude == 407128
HomeLongitude == 0 - 740060

\* provider.latitude and provider.longitude of the booking's provider.
ProviderLatitudes == {None, Some(0), Some(HomeLatitude)}
ProviderLongitudes == {None, Some(0), Some(HomeLongitude)}

\* The fields of a create_booking body the distance depends on; distance_km
\* is a writable field of the serializer.
TravelData ==
    {[service_latitude |-> lat, service_longitude |-> lng,
      distance_km |-> km] :
        lat \in {None, Some(0), Some(HomeLatitude), Some(HomeLatitude + 40),
                 Some(HomeLatitude + 2700)},
        lng \in {None, Some(0), Some(HomeLongitude)},
        km \in {None, Some(1234)}}

\* all([...]) on optional numbers: every one is present and not zero.
all(opts) == \A i \in DOMAIN opts : Truthy(opts[i])

\* ServiceBookingSerializer.calculate_distance: None unless all() of the four
\* coordinates, else the haversine distance.
ServiceBookingSerializer_calculate_distance(customer_lat, customer_lng, provider_lat, provider_lng) ==
    IF ~all(<<customer_lat, customer_lng, provider_lat, provider_lng>>)
        THEN None
    ELSE Some(calculate_distance(customer_lat[1], customer_lng[1],
                                 provider_lat[1], provider_lng[1]))

\* int(distance / 30 * 60) formatted as f"{travel_time_minutes} minutes".
travel_time(distance) == <<distance \div 50, " minutes">>

\* The distance part of ServiceBookingSerializer.create: what the new row
\* holds in distance_km and estimated_travel_time.
ServiceBookingSerializer_create(data) ==
    /\ travel.code = 0
    /\ UNCHANGED <<bookings, payments, processing, notifications, now,
                   response, services, search, reviews, profiles, creating,
                   inflight>>
    /\ LET given == all(<<data.service_latitude, data.service_longitude,
                          travel.provider_latitude,
                          travel.provider_longitude>>)
           distance == IF given
                           THEN ServiceBookingSerializer_calculate_distance(
                                    data.service_latitude,
                                    data.service_longitude,
                                    travel.provider_latitude,
                                    travel.provider_longitude)
                       ELSE None
       IN travel' = [travel EXCEPT
              !.code = 201,
              !.data = data,
              !.distance_km = IF given THEN distance ELSE data.distance_km,
              !.estimated_travel_time =
                  IF given /\ Truthy(distance)
                      THEN Some(travel_time(distance[1]))
                  ELSE None]

\* One create_booking request for every home of the provider.
TravelInit ==
    /\ bookings = <<>>
    /\ payments = <<>>
    /\ processing = {}
    /\ notifications = <<>>
    /\ now = 1
    /\ response = NoResponse
    /\ services = <<>>
    /\ search = NoSearch
    /\ reviews = <<>>
    /\ profiles = NoProfiles
    /\ creating = {}
    /\ inflight = {}
    /\ travel \in {[code |-> 0, data |-> None, provider_latitude |-> lat,
                    provider_longitude |-> lng, distance_km |-> None,
                    estimated_travel_time |-> None] :
                       lat \in ProviderLatitudes, lng \in ProviderLongitudes}

TravelNext == \E d \in TravelData : ServiceBookingSerializer_create(d)

TravelSpec == TravelInit /\ [][TravelNext]_vars

\* ------------------------------------------------- requests racing on a row
\* The server handles requests concurrently and the handlers take no lock and
\* open no transaction around their reads and writes, so another request can
\* run between a handler's load of a booking and its save, and between the
\* two saves of Payment.save.  The definitions below are the handlers above
\* cut at those points.

\* What these handlers leave alone.
idlevars == <<services, search, reviews, profiles, creating, travel>>

\* The bodies of the create_booking requests: a full body without status or
\* asking for confirmed.
RaceCreateData ==
    {Body(FullParties, s, ABSENT, QuotedPrice) : s \in {ABSENT, "confirmed"}}

\* The PATCH body that confirms: the provider and status confirmed.
RaceUpdateData == {Body(SameProviderParties, "confirmed", ABSENT, NULL)}

\* UpdateModelMixin.update up to perform_update: get_object hands the
\* instance to the serializer and is_valid checks the body.
UpdateModelMixin_update(user, b, data) ==
    /\ Serving
    /\ UNCHANGED <<bookings, payments, processing, notifications, now>>
    /\ IF get_object(user, b) # 200 THEN
           /\ response' = Respond("update_booking_status", b,
                                  get_object(user, b), "")
           /\ UNCHANGED inflight
       ELSE IF is_valid(data, TRUE) # "ok" THEN
           /\ response' = Respond("update_booking_status", b, 400,
                                  is_valid(data, TRUE))
           /\ UNCHANGED inflight
       ELSE
           /\ Cardinality(inflight) < MaxConcurrent
           /\ inflight' = inflight \cup
                  {[op |-> "update_booking_status", user |-> user,
                    booking |-> b, instance |-> bookings[b], data |-> data]}
           /\ response' = Respond("update_booking_status", b, 0, "loaded")

\* perform_update: get_object once more for the old status, then
\* serializer.save() writes the instance the serializer holds, every column
\* of it, and the notification follows.
perform_update_save(req) ==
    /\ req \in inflight
    /\ req.op = "update_booking_status"
    /\ inflight' = inflight \ {req}
    /\ UNCHANGED <<payments, processing>>
    /\ LET b == req.booking IN
       IF get_object(req.user, b) # 200 THEN
           /\ response' = Respond("update_booking_status", b,
                                  get_object(req.user, b), "")
           /\ UNCHANGED <<bookings, notifications, now>>
       ELSE
           LET old_status == bookings[b].status
               new_status == IF req.data.status = ABSENT THEN old_status
                             ELSE req.data.status
               booking == ServiceBooking_save(ApplyData(req.instance, req.data))
           IN /\ now < MaxTime
              /\ now' = now + 1
              /\ bookings' = [bookings EXCEPT ![b] = booking]
              /\ notifications' = notifications \o
                    StatusNotification(booking, b, old_status, new_status)
              /\ response' = Respond("update_booking_status", b, 200, "")

\* cancel_booking up to the save: the lookup of the row.
cancel_booking_get(user, b) ==
    /\ Serving
    /\ UNCHANGED <<bookings, payments, processing, notifications, now>>
    /\ IF ~is_customer(user) THEN
           /\ response' = Respond("cancel_booking", b, 403, "")
           /\ UNCHANGED inflight
       ELSE IF ~Cancellable(user, b) THEN
           /\ response' = Respond("cancel_booking", b, 404,
                                  "Booking not found or cannot be cancelled")
           /\ UNCHANGED inflight
       ELSE
           /\ Cardinality(inflight) < MaxConcurrent
           /\ inflight' = inflight \cup
                  {[op |-> "cancel_booking", user |-> user, booking |-> b,
                    instance |-> bookings[b]]}
           /\ response' = Respond("cancel_booking", b, 0, "loaded")

\* cancel_booking from the save on: the instance found is saved as cancelled,
\* every column of it, and the provider is notified.
cancel_booking_save(req) ==
    /\ req \in inflight
    /\ req.op = "cancel_booking"
    /\ inflight' = inflight \ {req}
    /\ UNCHANGED <<payments, processing>>
    /\ LET b == req.booking
           booking == ServiceBooking_save(
                          [req.instance EXCEPT !.status = "cancelled"])
       IN /\ now < MaxTime
          /\ now' = now + 1
          /\ bookings' = [bookings EXCEPT ![b] = booking]
          /\ notifications' = Append(notifications,
                 Notification(booking.provider, "booking_cancelled", b))
          /\ response' = Respond("cancel_booking", b, 200, "")

\* Payment.save after the sleep, first write: the gateway draw, then
\* self.booking.save() with the new payment_status.
Payment_save_booking(req, success) ==
    /\ req \in processing
    /\ processing' = processing \ {req}
    /\ UNCHANGED <<payments, notifications, now, response>>
    /\ LET p == req.payment
           saved == Payment_save(
                        [payments[p] EXCEPT
                            !.status = IF success THEN "completed"
                                       ELSE "failed"],
                        req.booking)
       IN /\ bookings' = IF saved.writes
                             THEN [bookings EXCEPT
                                      ![payments[p].booking] = saved.booking]
                             ELSE bookings
          /\ inflight' = inflight \cup
                 {[op |-> req.op, payment |-> p, held |-> req.booking,
                   instance |-> saved.payment]}

\* Payment.save after the sleep, second write: super().save() of the Payment
\* row, and the 201 response of the request; PaymentListCreateView then
\* tells the provider of a payment that succeeded.
Payment_save_super(req) ==
    /\ req \in inflight
    /\ req.op \in {"pay_booking", "create_payment"}
    /\ inflight' = inflight \ {req}
    /\ UNCHANGED <<bookings, processing, now>>
    /\ payments' = [payments EXCEPT ![req.payment] = req.instance]
    /\ notifications' =
           IF req.op = "create_payment" /\ req.instance.status = "completed"
               THEN Append(notifications,
                           Notification(req.held.provider, "payment_received",
                                        req.instance.booking))
               ELSE notifications
    /\ response' = Respond(req.op, req.instance.booking, 201, "")

RaceNext ==
    \/ /\ Serving /\ UNCHANGED searchvars
       /\ \E d \in RaceCreateData : perform_create("c1", d)
    \/ /\ UNCHANGED idlevars
       /\ \E u \in {"c1", "p1"}, b \in BookingIds, d \in RaceUpdateData :
              UpdateModelMixin_update(u, b, d)
    \/ /\ UNCHANGED idlevars
       /\ \E req \in inflight : perform_update_save(req)
    \/ /\ UNCHANGED idlevars
       /\ \E u \in {"c1", "p1"}, b \in BookingIds : cancel_booking_get(u, b)
    \/ /\ UNCHANGED idlevars
       /\ \E req \in inflight : cancel_booking_save(req)
    \/ /\ Serving /\ UNCHANGED searchvars
       /\ \E u \in {"c1", "p1"}, b \in BookingIds :
              ProcessPaymentView_post(u, b, "online")
    \/ /\ UNCHANGED idlevars
       /\ \E req \in processing, s \in BOOLEAN : Payment_save_booking(req, s)
    \/ /\ UNCHANGED idlevars
       /\ \E req \in inflight : Payment_save_super(req)

RaceSpec == Init /\ [][RaceNext]_vars

\* ------------------------------------------------------------------ claims
TerminalStatuses == {"completed", "cancelled", "rejected"}

\* The transitions of the booking state machine.
Edges ==
    {<<"pending", "confirmed">>, <<"confirmed", "in_progress">>,
     <<"in_progress", "completed">>, <<"pending", "rejected">>,
     <<"pending", "cancelled">>, <<"confirmed", "cancelled">>}

\* A PATCH body carrying the status alone, or the status with a reason.
StatusOnly(s) ==
    [customer |-> ABSENT, provider |-> ABSENT, status |-> s,
     booking_date |-> ABSENT, rejection_reason |-> ABSENT]

RejectWithReason ==
    [StatusOnly("rejected") EXCEPT
        !.rejection_reason = "Not available on that date"]

\* C1: once a booking's status is completed, cancelled or rejected, no
\* operation changes that status again.
C1_TerminalStatusIsFinal ==
    [][\A b \in DOMAIN bookings :
          bookings[b].status \in TerminalStatuses
              => bookings'[b].status = bookings[b].status]_vars

\* C2: every status change made by update_booking_status or cancel_booking
\* follows an edge of the state machine.
C2_StatusChangesFollowEdges ==
    [][\A b \in DOMAIN bookings :
          (/\ response'.op \in {"update_booking_status", "cancel_booking"}
           /\ bookings'[b].status # bookings[b].status)
              => <<bookings[b].status, bookings'[b].status>> \in Edges]_vars

\* C3: the assigned provider's PATCH of a pending booking carrying only
\* status confirmed, or status rejected with a rejection_reason, succeeds:
\* the status becomes the requested one, the reason is stored, and
\* confirmed_at is set after confirming.
C3_ProviderStatusOnlyPatchSucceeds ==
    [][\A b \in DOMAIN bookings :
          \A d \in {StatusOnly("confirmed"), RejectWithReason} :
              (/\ bookings[b].status = "pending"
               /\ perform_update(bookings[b].provider, b, TRUE, d))
                  => /\ response'.code = 200
                     /\ bookings'[b].status = d.status
                     /\ d.rejection_reason # ABSENT
                            => bookings'[b].rejection_reason = d.rejection_reason
                     /\ d.status = "confirmed"
                            => bookings'[b].confirmed_at # NULL]_vars

\* C4: confirmed_at, completed_at and cancelled_at are set by the first save
\* that finds the booking in the matching status and no later save changes
\* them, so a stored booking in one of these statuses has its timestamp.
C4_TimestampsSetOnceAndKept ==
    [][\A b \in DOMAIN bookings' :
          /\ bookings'[b].status = "confirmed" => bookings'[b].confirmed_at # NULL
          /\ bookings'[b].status = "completed" => bookings'[b].completed_at # NULL
          /\ bookings'[b].status = "cancelled" => bookings'[b].cancelled_at # NULL
          /\ b \in DOMAIN bookings =>
                /\ bookings[b].confirmed_at # NULL
                       => bookings'[b].confirmed_at = bookings[b].confirmed_at
                /\ bookings[b].completed_at # NULL
                       => bookings'[b].completed_at = bookings[b].completed_at
                /\ bookings[b].cancelled_at # NULL
                       => bookings'[b].cancelled_at = bookings[b].cancelled_at]_vars

\* C5: update_booking_status by a user other than the booking's provider
\* leaves the bookings unchanged; the booking's customer gets a permission
\* error (403), any other user gets not-found (404).
C5_NonProviderUpdateRejected ==
    [][\A u \in Users, b \in DOMAIN bookings :
          (/\ response'.op = "update_booking_status"
           /\ response'.booking = b
           /\ u # bookings[b].provider
           /\ update_booking_status(u, b))
              => /\ bookings' = bookings
                 /\ response'.code =
                        IF u = bookings[b].customer THEN 403 ELSE 404]_vars

\* C5 witness: the customer of an existing booking asked to update it and
\* received the permission error.
C5_CustomerDenied ==
    /\ response.op = "update_booking_status"
    /\ response.code = 403
    /\ response.booking \in DOMAIN bookings

\* C6: a status becomes cancelled only by cancel_booking of the booking's
\* customer, and only from pending or confirmed.
C6_OnlyCustomerCancels ==
    [][\A b \in DOMAIN bookings :
          (bookings[b].status # "cancelled" /\ bookings'[b].status = "cancelled")
              => /\ bookings[b].status \in {"pending", "confirmed"}
                 /\ response'.op = "cancel_booking"
                 /\ cancel_booking(bookings[b].customer, b)]_vars

\* The booking b is one that user may cancel.
C7_Eligible(u, b) ==
    /\ b \in DOMAIN bookings
    /\ bookings[b].customer = u
    /\ bookings[b].status \in {"pending", "confirmed"}

\* C7 as stated: cancel_booking succeeds exactly for the booking's customer
\* on a pending or confirmed booking, setting status cancelled and
\* cancelled_at; every other call returns not-found (404) and leaves the
\* bookings and the notifications unchanged.
C7_CancelElseNotFound ==
    [][\A u \in Users, b \in BookingIds :
          (/\ response'.op = "cancel_booking"
           /\ response'.booking = b
           /\ cancel_booking(u, b)) =>
              IF C7_Eligible(u, b)
                  THEN /\ response'.code = 200
                       /\ bookings'[b].status = "cancelled"
                       /\ bookings'[b].cancelled_at # NULL
                  ELSE /\ response'.code = 404
                       /\ bookings' = bookings
                       /\ notifications' = notifications]_vars

\* C7 amended: as above, except that the error of a refused call is
\* not-found (404) for an actor with the customer role and a permission
\* error (403) for an actor without it.
C7_CancelElseNotFoundOrDenied ==
    [][\A u \in Users, b \in BookingIds :
          (/\ response'.op = "cancel_booking"
           /\ response'.booking = b
           /\ cancel_booking(u, b)) =>
              IF C7_Eligible(u, b)
                  THEN /\ response'.code = 200
                       /\ bookings'[b].status = "cancelled"
                       /\ bookings'[b].cancelled_at # NULL
                  ELSE /\ response'.code = IF is_customer(u) THEN 404 ELSE 403
                       /\ bookings' = bookings
                       /\ notifications' = notifications]_vars

\* C7 witness: a cancel_booking call succeeded and the booking is stored as
\* cancelled with its timestamp.
C7_Cancelled ==
    /\ response.op = "cancel_booking"
    /\ response.code = 200
    /\ bookings[response.booking].status = "cancelled"
    /\ bookings[response.booking].cancelled_at # NULL

\* The three notification types a status change can announce.
C8_StatusTypes == {"booking_confirmed", "booking_completed", "booking_cancelled"}

\* C8 as stated: a successful update_booking_status or cancel_booking that
\* changes the status creates exactly one notification, addressed to the
\* booking's customer and of type booking_confirmed, booking_completed or
\* booking_cancelled; one that leaves the status unchanged creates none.
C8_StatusChangeNotifiesCustomer ==
    [][\A b \in DOMAIN bookings :
          (/\ response'.op \in {"update_booking_status", "cancel_booking"}
           /\ response'.booking = b
           /\ response'.code = 200)
              => IF bookings'[b].status # bookings[b].status
                     THEN \E type \in C8_StatusTypes :
                              notifications' =
                                  Append(notifications,
                                         Notification(bookings'[b].customer, type, b))
                     ELSE notifications' = notifications]_vars

\* C8 amended: a successful update_booking_status that changes the status to
\* confirmed, completed or cancelled creates exactly one notification, of the
\* matching type and addressed to the booking's customer; one that changes it
\* to pending, in_progress or rejected, or leaves it unchanged, creates none;
\* a successful cancel_booking creates exactly one booking_cancelled
\* notification, addressed to the booking's provider.
C8_StatusChangeNotifications ==
    [][\A b \in DOMAIN bookings :
          (/\ response'.op \in {"update_booking_status", "cancel_booking"}
           /\ response'.booking = b
           /\ response'.code = 200)
              => LET old == bookings[b].status
                     new == bookings'[b].status
                 IN  IF response'.op = "cancel_booking"
                         THEN notifications' =
                                  Append(notifications,
                                         Notification(bookings'[b].provider,
                                                      "booking_cancelled", b))
                     ELSE IF old # new /\ new \in {"confirmed", "completed", "cancelled"}
                         THEN notifications' =
                                  Append(notifications,
                                         Notification(bookings'[b].customer,
                                                      "booking_" \o new, b))
                     ELSE notifications' = notifications]_vars

\* C8 witness: a successful update changed a status to confirmed and the
\* newest notification tells the booking's customer so.
C8_CustomerToldOfConfirmation ==
    /\ response.op = "update_booking_status"
    /\ response.code = 200
    /\ bookings[response.booking].status = "confirmed"
    /\ notifications # <<>>
    /\ notifications[Len(notifications)] =
           Notification(bookings[response.booking].customer,
                        "booking_confirmed", response.booking)

\* The request is one of those create_booking has to refuse: customer and
\* provider are the same user, the actor is not a customer, the target is not
\* a provider, or the date is not strictly in the future.
C9_Refusable(u, d) ==
    \/ d.customer # ABSENT /\ d.customer = d.provider
    \/ u = d.provider
    \/ ~is_customer(u)
    \/ d.provider # ABSENT /\ ~is_provider(d.provider)
    \/ d.booking_date # ABSENT /\ DateValue(d.booking_date) <= now

\* C9: create_booking persists nothing (no booking, no notification) and
\* answers with an error when customer and provider are the same user, the
\* actor is not a customer, the target provider is not a provider, or the
\* date is not strictly in the future: a create that persisted a booking was
\* sent with none of these, a refused one persisted nothing.
C9_InvalidCreateRejected ==
    [][response'.op = "create_booking" =>
          IF response'.code < 400
              THEN \A u \in Users, d \in BookingData :
                       perform_create(u, d) => ~C9_Refusable(u, d)
              ELSE bookings' = bookings /\ notifications' = notifications]_vars

\* C9 witness: a create_booking whose date was not in the future was refused.
C9_DateRefused ==
    /\ response.op = "create_booking"
    /\ response.code = 400
    /\ response.detail = "Booking date must be in the future"

\* C10: create_booking by a customer who supplies provider, service, date,
\* address and quoted price, and no customer field, succeeds and persists
\* exactly one booking, with status pending, payment_status pending and the
\* actor as customer, and exactly one booking_request notification addressed
\* to the provider.
C10_CreateWithoutCustomerField ==
    [][\A u \in Customers, d \in BookingData :
          (/\ response'.op = "create_booking"
           /\ d.customer = ABSENT
           /\ d.provider \in Providers
           /\ d.booking_date = "future"
           /\ d.status = ABSENT
           /\ perform_create(u, d))
              => /\ response'.code = 201
                 /\ Len(bookings') = Len(bookings) + 1
                 /\ bookings'[Len(bookings')].status = "pending"
                 /\ bookings'[Len(bookings')].payment_status = "pending"
                 /\ bookings'[Len(bookings')].customer = u
                 /\ notifications' =
                        Append(notifications,
                               Notification(d.provider, "booking_request",
                                            Len(bookings')))]_vars

\* -------------------------------------------------------------------- C11
\* C11: after a booking is created its quoted_price never changes: no step
\* of update_booking_status, cancel_booking, pay_booking or a payment leaving
\* processing changes the quoted_price of a booking that exists.
C11_QuotedPriceNeverChanges ==
    [][\A b \in DOMAIN bookings :
          bookings'[b].quoted_price = bookings[b].quoted_price]_vars

\* -------------------------------------------------------------------- C12
\* C12: in every reachable state every persisted booking has a customer who
\* is not its provider, after create_booking (which stores the acting user
\* as customer) and after every update that rewrites customer or provider.
C12_CustomerIsNotProvider ==
    \A b \in DOMAIN bookings : bookings[b].customer # bookings[b].provider

\* C12 witness: an update has rewritten the provider of a booking, which
\* create_booking had stored with the acting user c1 as customer.
C12_ProviderRewritten ==
    /\ response.op = "update_booking_status"
    /\ response.code = 200
    /\ bookings[response.booking].customer = "c1"
    /\ bookings[response.booking].provider = "p2"

\* -------------------------------------------------------------------- C13
\* C13: a Payment is persisted, through pay_booking or the payment-creation
\* endpoint, only with amount equal to the booking's quoted_price, on a
\* booking whose status is confirmed or completed, and with the acting
\* customer, whom the row records as its customer, being the booking's
\* customer; a request that is refused creates no Payment.
C13_PaymentOnlyByBookingCustomer ==
    [][/\ Len(payments') > Len(payments) =>
             LET p == payments'[Len(payments')]
             IN /\ Len(payments') = Len(payments) + 1
                /\ response'.code < 400
                /\ p.amount = bookings[p.booking].quoted_price
                /\ bookings[p.booking].status \in {"confirmed", "completed"}
                /\ p.customer = bookings[p.booking].customer
       /\ response'.code >= 400 => payments' = payments]_vars

\* -------------------------------------------------------------------- C14
\* C14: every non-cash payment goes pending -> processing -> completed or
\* failed.  The row of a non-cash request is stored in processing with its
\* transaction id assigned; the only status change of a stored payment is
\* from processing to completed or to failed, which sets the booking's
\* payment_status to paid or to failed, so that no request changes a
\* completed or failed payment again; and a payment in processing always
\* ends in completed or failed: again and again no payment is in processing.
C14_NonCashPaymentHistory ==
    /\ [][/\ \A p \in DOMAIN payments' \ DOMAIN payments :
               payments'[p].payment_method # "cash"
                   => /\ payments'[p].status = "processing"
                      /\ payments'[p].transaction_id # ABSENT
          /\ \A p \in DOMAIN payments :
               payments'[p].status # payments[p].status
                   => /\ payments[p].status = "processing"
                      /\ payments[p].transaction_id # ABSENT
                      /\ \/ /\ payments'[p].status = "completed"
                            /\ bookings'[payments[p].booking].payment_status
                                   = "paid"
                         \/ /\ payments'[p].status = "failed"
                            /\ bookings'[payments[p].booking].payment_status
                                   = "failed"]_vars
    /\ []<>(\A p \in DOMAIN payments : payments[p].status # "processing")

\* C14 witness: an online payment has left processing as failed and its
\* booking shows payment_status failed.
C14_OnlinePaymentFailed ==
    \E p \in DOMAIN payments :
        /\ payments[p].payment_method = "online"
        /\ payments[p].status = "failed"
        /\ payments[p].transaction_id = "TXN_"
        /\ bookings[payments[p].booking].payment_status = "failed"
        /\ processing = {}

\* -------------------------------------------------------------------- C15
\* C15: in every reachable state, whatever the interleaving of pay_booking
\* and payment-creation requests, a booking has at most one Payment with
\* status completed.
C15_AtMostOneCompletedPayment ==
    \A b \in DOMAIN bookings :
        Cardinality({p \in DOMAIN payments :
                        /\ payments[p].booking = b
                        /\ payments[p].status = "completed"}) <= 1

\* -------------------------------------------------------------------- C16
\* The booking exists, the actor is its customer and its status admits a
\* payment.
C16_Payable(u, b) ==
    /\ b \in DOMAIN bookings
    /\ bookings[b].customer = u
    /\ bookings[b].status \in {"confirmed", "completed"}

\* A Payment of the booking has status completed.
C16_Paid(b) ==
    \E p \in DOMAIN payments :
        payments[p].booking = b /\ payments[p].status = "completed"

\* What C16 says of a pay_booking request on a payable booking: refused as
\* already paid, with nothing changed, exactly when a completed Payment
\* exists; accepted with one new Payment of the booking otherwise, so also
\* when only failed payments exist.
C16_PayableOutcome(b) ==
    IF C16_Paid(b)
        THEN /\ response'.code = 400
             /\ response'.detail = "Payment already completed for this booking"
             /\ UNCHANGED <<bookings, payments, processing, notifications>>
        ELSE /\ response'.code < 400
             /\ Len(payments') = Len(payments) + 1
             /\ payments'[Len(payments')].booking = b

\* C16 as stated: pay_booking by the booking's customer on a confirmed or
\* completed booking is refused as already paid exactly when a completed
\* Payment exists and is accepted otherwise; on a booking the actor does not
\* own, or in another status, it returns not-found and creates nothing.
C16_PayElseNotFound ==
    [][\A u \in Users, b \in BookingIds, m \in PAYMENT_METHODS :
          (/\ response'.op = "pay_booking"
           /\ response'.booking = b
           /\ ProcessPaymentView_post(u, b, m))
              => IF C16_Payable(u, b) THEN C16_PayableOutcome(b)
                 ELSE /\ response'.code = 404
                      /\ UNCHANGED <<bookings, payments, processing,
                                     notifications>>]_vars

\* C16, amended: as above, where the request on a booking that is not
\* payable by the actor returns not-found to an actor with the customer role
\* and a permission error to an actor without it, and creates nothing.
C16_PayElseNotFoundOrDenied ==
    [][\A u \in Users, b \in BookingIds, m \in PAYMENT_METHODS :
          (/\ response'.op = "pay_booking"
           /\ response'.booking = b
           /\ ProcessPaymentView_post(u, b, m))
              => IF C16_Payable(u, b) THEN C16_PayableOutcome(b)
                 ELSE /\ response'.code = IF is_customer(u) THEN 404 ELSE 403
                      /\ UNCHANGED <<bookings, payments, processing,
                                     notifications>>]_vars

\* C16 witness: a pay_booking request was accepted and has completed a new
\* Payment of a booking whose earlier payment had failed.
C16_PaidAfterFailure ==
    /\ response.op = "pay_booking"
    /\ response.code = 201
    /\ \E p, q \in DOMAIN payments :
          /\ p < q
          /\ payments[p].booking = response.booking
          /\ payments[q].booking = response.booking
          /\ payments[p].status = "failed"
          /\ payments[q].status = "completed"
          /\ payments[q].payment_method = "cash"

\* -------------------------------------------------------------------- C17
\* C17: a pay_booking request with method cash that creates a Payment ends
\* with that Payment completed, whatever the gateway would draw: the request
\* is answered at once, nothing enters processing, the transaction id has
\* the CASH_ prefix and the booking's payment_status is paid; and no later
\* step changes such a payment, so that it is never processing nor failed.
C17_CashPaymentCompletes ==
    [][/\ \A u \in Users, b \in BookingIds :
            (/\ response'.op = "pay_booking"
             /\ response'.booking = b
             /\ ProcessPaymentView_post(u, b, "cash")
             /\ payments' # payments)
                => /\ response'.code = 201
                   /\ payments' = Append(payments, payments'[Len(payments')])
                   /\ payments'[Len(payments')].payment_method = "cash"
                   /\ payments'[Len(payments')].status = "completed"
                   /\ payments'[Len(payments')].transaction_id = "CASH_"
                   /\ processing' = processing
                   /\ bookings'[b].payment_status = "paid"
       /\ \A p \in DOMAIN payments :
            payments[p].transaction_id = "CASH_"
                => /\ payments[p].payment_method = "cash"
                   /\ payments[p].status = "completed"
                   /\ payments'[p] = payments[p]]_vars

\* C17 witness: pay_booking with cash has just completed a Payment and the
\* booking is paid.
C17_PaidInCash ==
    /\ response.op = "pay_booking"
    /\ response.code = 201
    /\ payments # <<>>
    /\ payments[Len(payments)].payment_method = "cash"
    /\ payments[Len(payments)].status = "completed"
    /\ payments[Len(payments)].transaction_id = "CASH_"
    /\ bookings[response.booking].payment_status = "paid"

\* ---------------------------------------------------------- C18, C19, C20
\* The ids of the services in a bucket of the response.
BucketIds(bucket) == {bucket[n].id : n \in 1..Len(bucket)}

\* Service i is a candidate: active, with an active provider who has both
\* coordinates.
Candidate(i) ==
    /\ services[i].is_active
    /\ services[i].provider_is_active
    /\ services[i].latitude # None
    /\ services[i].longitude # None

\* Service i satisfies every filter the request supplies.
PassesSuppliedFilters(i, data) ==
    /\ data.category # None
          => icontains(services[i].category, data.category[1])
    /\ data.min_rating # None
          => services[i].average_rating >= data.min_rating[1]
    /\ data.max_price # None
          => services[i].base_price <= data.max_price[1]

\* The distance from the origin of the request to the provider of service i,
\* in hundredths of a kilometre.
DistanceTo(i, data) ==
    calculate_distance(data.latitude, data.longitude,
                       services[i].latitude[1], services[i].longitude[1])

\* The radius of the request in hundredths of a kilometre.
RadiusOf(data) == 100 * (IF data.radius = None THEN 10 ELSE data.radius[1])

\* C18: for every search with a valid radius r, a service is in the nearby
\* bucket if and only if it is a candidate, passes the supplied filters and
\* lies at a distance <= r; it is in the distant bucket if and only if it is
\* a candidate, passes the filters and r < distance <= 50; no service is in
\* both or twice in one, and a service farther than 50 km or without a
\* coordinate is in neither.
C18_BucketMembership ==
    search.code = 200 =>
        LET data == search.data
            nearby == search.nearby_services
            distant == search.distant_services
        IN /\ Len(nearby) = Cardinality(BucketIds(nearby))
           /\ Len(distant) = Cardinality(BucketIds(distant))
           /\ BucketIds(nearby) \cap BucketIds(distant) = {}
           /\ \A i \in 1..Len(services) :
                /\ i \in BucketIds(nearby)
                      <=> /\ Candidate(i)
                          /\ PassesSuppliedFilters(i, data)
                          /\ DistanceTo(i, data) <= RadiusOf(data)
                /\ i \in BucketIds(distant)
                      <=> /\ Candidate(i)
                          /\ PassesSuppliedFilters(i, data)
                          /\ DistanceTo(i, data) > RadiusOf(data)
                          /\ DistanceTo(i, data) <= 5000

\* C19: whenever category, min_rating or max_price is supplied with a value
\* the serializer accepts, every service returned in either bucket satisfies
\* all supplied filters: its category matches, its provider's average rating
\* is >= min_rating and its base price is <= max_price.
C19_ReturnedServicesPassFilters ==
    search.code = 200 =>
        \A i \in BucketIds(search.nearby_services)
                    \cup BucketIds(search.distant_services) :
            PassesSuppliedFilters(i, search.data)

\* The key the request asks a bucket to be ordered by, smaller first.
C20_Key(sort_by, entry) ==
    CASE sort_by = "distance" -> entry.distance_km
      [] sort_by = "rating" -> 0 - services[entry.id].average_rating
      [] sort_by = "price" -> services[entry.id].base_price
      [] sort_by = "reviews" -> 0 - services[entry.id].total_reviews

\* A bucket is in the order of the key, and entries with the same key are in
\* the order of the candidate list.
C20_Ordered(bucket, sort_by) ==
    \A m, n \in 1..Len(bucket) :
        m < n =>
            \/ C20_Key(sort_by, bucket[m]) < C20_Key(sort_by, bucket[n])
            \/ /\ C20_Key(sort_by, bucket[m]) = C20_Key(sort_by, bucket[n])
               /\ bucket[m].id < bucket[n].id

\* C20: each bucket of a search is ordered on its own by the requested key,
\* distance ascending, rating descending, price ascending or review count
\* descending, and services that tie on the key keep the relative order they
\* had in the candidate list.
C20_BucketsSortedStably ==
    search.code = 200 =>
        /\ C20_Ordered(search.nearby_services, search.data.sort_by)
        /\ C20_Ordered(search.distant_services, search.data.sort_by)

\* C20 witness: a search by price has moved a cheaper service in front of
\* one listed before it and has kept two services of the same price in the
\* order of the list.
C20_TieKeptOrder ==
    /\ search.code = 200
    /\ search.data.sort_by = "price"
    /\ \E m, n \in 1..Len(search.nearby_services) :
          /\ m < n
          /\ search.nearby_services[m].id > search.nearby_services[n].id
    /\ \E m, n \in 1..Len(search.nearby_services) :
          /\ m < n
          /\ services[search.nearby_services[m].id].base_price
                = services[search.nearby_services[n].id].base_price

\* -------------------------------------------------------------------- C21
\* C21: a create_review request sent by the booking's customer with the
\* booking and the ratings is accepted exactly when the booking can be
\* reviewed (its status is completed and it has no review), and no booking
\* ever has more than one Review.
C21_CustomerReviewsWhenReviewable ==
    /\ [][\A d \in ReviewData :
            (/\ d.customer = ABSENT
             /\ d.rating >= 1
             /\ ReviewListCreateView_post(bookings[d.booking].customer, d))
            => (response'.code < 400 <=> can_be_reviewed(d.booking))]_vars
    /\ [](\A b \in DOMAIN bookings :
            Cardinality({r \in DOMAIN reviews : reviews[r].booking = b}) <= 1)

\* -------------------------------------------------------------------- C22
\* C22: every persisted Review has the customer, provider and service of its
\* booking, the customer being the user who sent the request; a request on a
\* booking that is not completed, by a user who is not the booking's
\* customer, or on a booking that has a review is refused with a validation
\* error and nothing of it goes on to be persisted.
C22_ReviewOnlyByBookingCustomer ==
    /\ [](\A r \in DOMAIN reviews :
            /\ reviews[r].customer = bookings[reviews[r].booking].customer
            /\ reviews[r].provider = bookings[reviews[r].booking].provider
            /\ reviews[r].service = bookings[reviews[r].booking].service)
    /\ [][\A u \in Reviewers, d \in ReviewData :
            (/\ d.booking \in DOMAIN bookings
             /\ \/ bookings[d.booking].status # "completed"
                \/ u # bookings[d.booking].customer
                \/ HasReview(d.booking)
             /\ ReviewListCreateView_post(u, d))
            => /\ response'.code = 400
               /\ creating' = creating]_vars

\* -------------------------------------------------------------------- C23
\* The count and the mean rating, in hundredths, of the rows of a Review
\* table whose provider is p.
C23_Aggregate(p, table) ==
    LET ids == {r \in DOMAIN table : table[r].provider = p}
        n == Cardinality(ids)
    IN  [average_rating |-> (200 * SumRatings(table, ids) + n) \div (2 * n),
         total_reviews |-> n]

\* C23: a create_review request that persists a Review leaves the profile of
\* the review's provider with total_reviews equal to the number of Reviews of
\* that provider and average_rating equal to the mean of their ratings.
C23_RatingIsMeanOfProviderReviews ==
    [][Len(reviews') = Len(reviews) + 1
        => LET p == reviews'[Len(reviews')].provider
           IN  profiles'[p] = C23_Aggregate(p, reviews')]_vars

\* -------------------------------------------------------------------- C26
\* C26: create_review is all-or-nothing.  A step either leaves the Review
\* table, the profiles and the notifications as they were, or it inserts one
\* Review, writes the recomputed rating of the review's provider and appends
\* one review_received notification to that provider; so every Review has
\* exactly one such notification, and a request that failed while recomputing
\* or notifying has left no Review.
C26_ReviewAllOrNothing ==
    /\ [][\/ /\ reviews' = reviews
             /\ profiles' = profiles
             /\ notifications' = notifications
          \/ /\ Len(reviews') = Len(reviews) + 1
             /\ SubSeq(reviews', 1, Len(reviews)) = reviews
             /\ LET id == Len(reviews')
                    p == reviews'[id].provider
                IN  /\ profiles' = [profiles EXCEPT
                                       ![p] = update_rating(p, reviews')]
                    /\ notifications' =
                           Append(notifications, ReviewNotification(p, id))]_vars
    /\ [](\A r \in DOMAIN reviews :
            Cardinality({n \in DOMAIN notifications :
                notifications[n] =
                    ReviewNotification(reviews[r].provider, r)}) = 1)
    /\ [](Len(notifications) = Len(reviews))

\* A request has failed while notifying and left no Review, no rating and
\* no notification.
C26_FailedWhileNotifying ==
    /\ response.op = "create_review"
    /\ response.code = 500
    /\ response.detail = "notification"
    /\ reviews = <<>>
    /\ profiles = NoProfiles
    /\ notifications = <<>>

\* -------------------------------------------------------------------- C27
\* The four coordinates of the request handled are all present, a coordinate
\* of 0 counting as present.
C27_CoordinatesPresent ==
    /\ travel.data.service_latitude # None
    /\ travel.data.service_longitude # None
    /\ travel.provider_latitude # None
    /\ travel.provider_longitude # None

\* C27: create_booking stores a distance_km that is not null exactly when all
\* four coordinates are present, 0 counting as present; otherwise distance_km
\* and estimated_travel_time are both null.  Stated for the requests that do
\* not carry a distance_km of their own.
C27_DistanceStoredIffCoordinates ==
    (travel.code = 201 /\ travel.data.distance_km = None)
        => /\ travel.distance_km # None <=> C27_CoordinatesPresent
           /\ ~C27_CoordinatesPresent
                  => /\ travel.distance_km = None
                     /\ travel.estimated_travel_time = None

\* -------------------------------------------------------------------- C28
\* round(distance_km / 30 * 60) for a distance in hundredths of a kilometre.
C28_Minutes(distance) == (distance + 25) \div 50

\* C28: whenever create_booking stores a distance_km that is not null, 0.00
\* included, it stores the estimated_travel_time "<m> minutes" with
\* m = round(distance_km / 30 * 60).  Stated for the requests that do not
\* carry a distance_km of their own.
C28_TravelTimeIsRoundedMinutes ==
    (/\ travel.code = 201
     /\ travel.data.distance_km = None
     /\ travel.distance_km # None)
        => travel.estimated_travel_time =
               Some(<<C28_Minutes(travel.distance_km[1]), " minutes">>)

\* -------------------------------------------------------------------- C29
\* C29: what update_booking_status or cancel_booking committed while a
\* payment of the booking was processing is still in effect when the payment
\* ends: the write of the payment changes payment_status and no other field
\* of the booking.
C29_PaymentWritesOnlyPaymentStatus ==
    [][\A req \in processing, success \in BOOLEAN :
          process_fake_payment(req, success)
              => \A b \in DOMAIN bookings :
                     bookings'[b] =
                         [bookings[b] EXCEPT
                             !.payment_status = bookings'[b].payment_status]]_vars

\* -------------------------------------------------------------------- C30
\* C30: a booking's payment_status is paid only if the booking has a
\* completed Payment and failed only if it has a failed Payment, and no
\* update_booking_status request changes payment_status.
C30_PaymentStatusFollowsPayments ==
    /\ [](\A b \in DOMAIN bookings :
            /\ bookings[b].payment_status = "paid"
                   => \E p \in DOMAIN payments :
                          /\ payments[p].booking = b
                          /\ payments[p].status = "completed"
            /\ bookings[b].payment_status = "failed"
                   => \E p \in DOMAIN payments :
                          /\ payments[p].booking = b
                          /\ payments[p].status = "failed")
    /\ [][response'.op = "update_booking_status"
            => \A b \in DOMAIN bookings :
                   bookings'[b].payment_status = bookings[b].payment_status]_vars

\* -------------------------------------------------------------------- C24
\* C24: the two writes of a payment's terminal transition are visible
\* together or not at all: in no state is a booking's payment_status paid or
\* failed without a Payment of the booking that is completed or failed, and
\* in no state is a Payment completed or failed while the payment_status of
\* its booking is still pending.
C24_TerminalWritesVisibleTogether ==
    /\ \A b \in DOMAIN bookings :
          /\ bookings[b].payment_status = "paid"
                 => \E p \in DOMAIN payments :
                        payments[p].booking = b /\ payments[p].status = "completed"
          /\ bookings[b].payment_status = "failed"
                 => \E p \in DOMAIN payments :
                        payments[p].booking = b /\ payments[p].status = "failed"
    /\ \A p \in DOMAIN payments :
          payments[p].status \in {"completed", "failed"}
              => bookings[payments[p].booking].payment_status # "pending"

\* -------------------------------------------------------------------- C25
\* C25: a confirm by the provider and a cancel by the customer that both
\* loaded the pending booking are serialized: the one that succeeds is
\* applied to the booking while it is still pending, the other sees the
\* first's result or is refused; so no successful one of them takes away a
\* confirmed_at or cancelled_at the other had set.
C25_ConfirmAndCancelSerialized ==
    [][\A req \in inflight :
          (/\ req.op \in {"update_booking_status", "cancel_booking"}
           /\ req.instance.status = "pending"
           /\ perform_update_save(req) \/ cancel_booking_save(req)
           /\ response'.code = 200)
              => /\ bookings[req.booking].status = "pending"
                 /\ bookings[req.booking].confirmed_at # NULL
                        => bookings'[req.booking].confirmed_at # NULL
                 /\ bookings[req.booking].cancelled_at # NULL
                        => bookings'[req.booking].cancelled_at # NULL]_vars

====
